---- MODULE Spec2Model ----
(***************************************************************************)
(* Push-to-talk dictation: the threaded controller of                      *)
(* approach-3-python-exe/main.py (the same controller, minus the tray, is  *)
(* approach-1-python-uv/main.py; approach-4-gemini-windows/main.py differs *)
(* in the provider call only).                                             *)
(*                                                                         *)
(* The listener thread runs on_press / on_release one at a time.  Every     *)
(* accepted press spawns a start worker, every accepted release a           *)
(* processing worker; worker u belongs to the u-th accepted press           *)
(* (release).  Workers are Python threads and interleave freely; one step   *)
(* of a worker is one call of its body (tray.set_state, recorder.start,     *)
(* one polling iteration, recorder.stop, transcribe, time.sleep,            *)
(* paste_text).                                                             *)
(*                                                                         *)
(* SyncSpec is the synchronous controller of approach-5-gemini-macos and   *)
(* approach-6-whisper-macos, whose callbacks run the same bodies on the    *)
(* listener thread; LiveSpec is the threaded controller under fair         *)
(* scheduling of its worker threads.                                       *)
(***************************************************************************)
EXTENDS Integers, Sequences, FiniteSets, TLC

----------------------------------------------------------------------------
\* Bounds of the exploration.
MaxUtt == 2        \* accepted presses (utterances) explored
MaxBlocks == 2     \* audio blocks the capture callback delivers in total
MaxPolls == 1      \* iterations of the cue polling loop (range(60) in the source)

\* Program constants.
sample_rate == 16000      \* load_config: "sample_rate": 16000
CueThreshold == 4000      \* _do_start_recording: recorder.buffer_samples > 4000

\* Sizes (in frames) of the blocks the audio subsystem may hand to the callback.
BlockSizes == {2000, 8000}

\* Keys the OS may report: the configured hotkey and some other key.
target_key == "f9"
Keys == {"f9", "other"}

TRAY_IDLE == "idle"
TRAY_RECORDING == "recording"
TRAY_PROCESSING == "processing"
TRAY_ERROR == "error"

Utts == 1..MaxUtt
None == 0          \* Python None for the stream handle / "no file"

----------------------------------------------------------------------------
\* Text, as a sequence of one-character strings.
WS == {" ", "\t", "\n"}

Lower(c) ==
    CASE c = "N" -> "n"
      [] c = "A" -> "a"
      [] c = "B" -> "b"
      [] OTHER -> c

\* A strip that removes one leading whitespace character only.
LStrip_one(t) == IF t # <<>> /\ Head(t) \in WS THEN Tail(t) ELSE t

RECURSIVE LStrip(_)
LStrip(t) == IF t # <<>> /\ Head(t) \in WS THEN LStrip(Tail(t)) ELSE t

RECURSIVE RStrip(_)
RStrip(t) ==
    IF t # <<>> /\ t[Len(t)] \in WS THEN RStrip(SubSeq(t, 1, Len(t) - 1)) ELSE t

\* str.strip()
Strip(t) == RStrip(LStrip(t))

\* Does the literal alternative alt match text t at position i (1-based)?
MatchesAt(t, i, alt, icase) ==
    /\ i + Len(alt) - 1 <= Len(t)
    /\ \A k \in 1..Len(alt) :
          IF icase THEN Lower(t[i + k - 1]) = Lower(alt[k])
                   ELSE t[i + k - 1] = alt[k]

\* Index of the first alternative of the pattern that matches at i, 0 if none
\* (regex alternation is ordered: the first alternative that matches wins).
RECURSIVE FirstAlt(_, _, _, _, _)
FirstAlt(t, i, alts, icase, k) ==
    IF k > Len(alts) THEN 0
    ELSE IF MatchesAt(t, i, alts[k], icase) THEN k
    ELSE FirstAlt(t, i, alts, icase, k + 1)

\* re.sub(pattern, replacement, text, flags) for a pattern that is an
\* alternation of non-empty literals: leftmost, non-overlapping matches.
RECURSIVE ReSub(_, _, _)
ReSub(rule, t, i) ==
    IF i > Len(t) THEN <<>>
    ELSE LET k == FirstAlt(t, i, rule.alts, rule.icase, 1)
         IN  IF k = 0 THEN <<t[i]>> \o ReSub(rule, t, i + 1)
             ELSE rule.repl \o ReSub(rule, t, i + Len(rule.alts[k]))

\* The rules applied last to first.
RECURSIVE ApplyRules_reversed(_, _)
ApplyRules_reversed(text, rules) ==
    IF rules = <<>> THEN text
    ELSE ReSub(Head(rules), ApplyRules_reversed(text, Tail(rules)), 1)

RECURSIVE ApplyRules(_, _)
ApplyRules(text, rules) ==
    IF rules = <<>> THEN text
    ELSE ApplyRules(ReSub(Head(rules), text, 1), Tail(rules))

\* apply_corrections(text, regex_rules)
apply_corrections(text, regex_rules) == Strip(ApplyRules(text, regex_rules))

\* load_config: the default regex_rules, N8n|N 8 n -> n8n, IGNORECASE
regex_rules ==
    << [alts |-> << <<"N", "8", "n">>, <<"N", " ", "8", " ", "n">> >>,
        repl |-> <<"n", "8", "n">>,
        icase |-> TRUE] >>

\* Texts the provider may return in a 2xx response: a blank, and "N8n" followed
\* by a space and two CJK characters (a character outside ASCII is written as
\* its code point).
RawTexts == { <<" ">>, <<"N", "8", "n", " ", "U+6E2C", "U+8A66">> }

----------------------------------------------------------------------------
\* Outcomes of the provider call made by transcribe().
HttpStatuses == {401, 429, 500}

Outcomes ==
    [kind : {"ok"}, text : RawTexts, status : {200}]
      \cup [kind : {"http"}, text : {<<>>}, status : HttpStatuses]
      \cup [kind : {"timeout", "other"}, text : {<<>>}, status : {0}]

NoOutcome == [kind |-> "none", text |-> <<>>, status |-> 0]

\* bool(response): requests.Response.__bool__ is Response.ok, which is False
\* exactly when raise_for_status() raises, i.e. for every 4xx / 5xx status.
ResponseTruthy(status_code) == status_code < 400

\* status = e.response.status_code if e.response else "?"
HandlerStatus(status_code) ==
    IF ResponseTruthy(status_code)
    THEN [known |-> TRUE, code |-> status_code]
    ELSE [known |-> FALSE, code |-> 0]

MSG_INVALID_KEY == "API Key invalid"
MSG_RATE_LIMITED == "too many requests"
MSG_API_ERROR == "API error HTTP"
MSG_TIMEOUT == "network timeout"
MSG_OTHER == "error"
MSG_TOO_SHORT == "too short"
MSG_EMPTY == "empty result"
MSG_PASTED == "pasted"
MSG_NONE == "-"
MSG_PARSE == "response parse error"

\* {401: ..., 429: ...}.get(status, f"API error HTTP {status}")
HttpMessage(st) ==
    IF st.known /\ st.code = 401 THEN MSG_INVALID_KEY
    ELSE IF st.known /\ st.code = 429 THEN MSG_RATE_LIMITED
    ELSE MSG_API_ERROR

\* The message the except clauses of _do_process_recording print.
FailureMessage(o) ==
    CASE o.kind = "http" -> HttpMessage(HandlerStatus(o.status))
      [] o.kind = "timeout" -> MSG_TIMEOUT
      [] o.kind = "malformed" -> MSG_PARSE
      [] OTHER -> MSG_OTHER

----------------------------------------------------------------------------
VARIABLES
    call,           \* a function of the program called on its own: its arguments
                    \* and, once it has returned, its result
    listener,       \* the hotkey listener thread: "waiting" for a key event, in a
                    \* "callback", or "stopped"
    recording,      \* main: the guard flag `recording`
    nPress,         \* accepted presses so far (= start workers spawned)
    nRel,           \* accepted releases so far (= processing workers spawned)
    is_recording,   \* AudioRecorder.is_recording
    frames,         \* AudioRecorder._frames
    stream,         \* AudioRecorder._stream: None or the stream start u opened
    openStreams,    \* device streams that are open and deliver callbacks
    nBlocks,        \* blocks delivered to the callback so far
    wavOwner,       \* whisper_voice.wav: None or the utterance whose stop wrote it
    tray,           \* TrayIcon._state
    spc,            \* start worker u: its position
    polls,          \* start worker u: polling iterations done
    ppc,            \* processing worker u: its position
    outcome,        \* processing worker u: what transcribe() returned or raised
    recLog,         \* history: executions of recorder.start / recorder.stop
    clip,           \* history: the clip stop() of utterance u produced
    uLog,           \* history: statuses utterance u's workers passed to set_state
    sent,           \* history: whose clip each transcribe call of u opened
    msg,            \* history: the last message utterance u's worker printed
    pasted,         \* history: texts paste_text was called with for utterance u
    beeps           \* history: cues played by start worker u

ctlVars == <<call, listener, recording, nPress, nRel>>
recVars == <<is_recording, frames, stream, openStreams, nBlocks, wavOwner>>
startVars == <<spc, polls, beeps>>
procVars == <<ppc, outcome, clip, sent, msg, pasted>>
vars == <<call, listener, recording, nPress, nRel, is_recording, frames, stream, openStreams,
          nBlocks, wavOwner, tray, spc, polls, ppc, outcome, recLog, clip, uLog,
          sent, msg, pasted, beeps>>
progVars == <<listener, recording, nPress, nRel, is_recording, frames, stream,
              openStreams, nBlocks, wavOwner, tray, spc, polls, ppc, outcome, recLog,
              clip, uLog, sent, msg, pasted, beeps>>

\* No function is called on its own.
NoCall == [op |-> "none"]

\* The program after main has built the tray, the recorder and the guard flag.
InitProgram ==
    /\ listener = "waiting"
    /\ recording = FALSE
    /\ nPress = 0
    /\ nRel = 0
    /\ is_recording = FALSE
    /\ frames = <<>>
    /\ stream = None
    /\ openStreams = {}
    /\ nBlocks = 0
    /\ wavOwner = None
    /\ tray = TRAY_IDLE
    /\ spc = [u \in Utts |-> "none"]
    /\ polls = [u \in Utts |-> 0]
    /\ ppc = [u \in Utts |-> "none"]
    /\ outcome = [u \in Utts |-> NoOutcome]
    /\ recLog = <<>>
    /\ clip = [u \in Utts |-> <<>>]
    /\ uLog = [u \in Utts |-> <<>>]
    /\ sent = [u \in Utts |-> <<>>]
    /\ msg = [u \in Utts |-> MSG_NONE]
    /\ pasted = [u \in Utts |-> <<>>]
    /\ beeps = [u \in Utts |-> <<>>]

Init == InitProgram /\ call = NoCall

----------------------------------------------------------------------------
\* TrayIcon.set_state(state), called by a worker of utterance u.
set_state(u, state) ==
    /\ tray' = state
    /\ uLog' = [uLog EXCEPT ![u] = Append(@, state)]

\* on_press without the `if recording: return` test.
on_press_unguarded(key) ==
    IF key # target_key
    THEN UNCHANGED vars
    ELSE /\ nPress < MaxUtt
         /\ recording' = TRUE
         /\ nPress' = nPress + 1
         /\ spc' = [spc EXCEPT ![nPress + 1] = "tray"]
         /\ UNCHANGED <<call, listener, nRel, recVars, tray, polls, beeps, procVars, recLog,
                        uLog>>

\* on_press without the `if key != target_key: return` test.
on_press_any_key(key) ==
    IF recording
    THEN UNCHANGED vars
    ELSE /\ nPress < MaxUtt
         /\ recording' = TRUE
         /\ nPress' = nPress + 1
         /\ spc' = [spc EXCEPT ![nPress + 1] = "tray"]
         /\ UNCHANGED <<call, listener, nRel, recVars, tray, polls, beeps, procVars, recLog,
                        uLog>>

\* The body of on_press(key): the test of the key, the guard flag under the
\* lock, the spawn of _do_start_recording.
hotkey_press(key) ==
    IF key # target_key \/ recording
    THEN UNCHANGED progVars
    ELSE /\ nPress < MaxUtt
         /\ recording' = TRUE
         /\ nPress' = nPress + 1
         /\ spc' = [spc EXCEPT ![nPress + 1] = "tray"]
         /\ UNCHANGED <<listener, nRel, recVars, tray, polls, beeps, procVars, recLog, uLog>>

\* on_press(key), registered with the listener directly
on_press(key) == hotkey_press(key) /\ UNCHANGED call

\* on_release without the `if not recording: return` test.
on_release_unguarded(key) ==
    IF key # target_key
    THEN UNCHANGED vars
    ELSE /\ nRel < MaxUtt
         /\ recording' = FALSE
         /\ nRel' = nRel + 1
         /\ ppc' = [ppc EXCEPT ![nRel + 1] = "stop"]
         /\ UNCHANGED <<call, listener, nPress, recVars, tray, startVars, outcome, clip,
                        sent, msg, pasted, recLog, uLog>>

\* The body of on_release(key): the test of the key, the guard flag under
\* the lock, the spawn of _do_process_recording.
hotkey_release(key) ==
    IF key # target_key \/ ~recording
    THEN UNCHANGED progVars
    ELSE /\ recording' = FALSE
         /\ nRel' = nRel + 1
         /\ ppc' = [ppc EXCEPT ![nRel + 1] = "stop"]
         /\ UNCHANGED <<listener, nPress, recVars, tray, startVars, outcome, clip,
                        sent, msg, pasted, recLog, uLog>>

\* on_release(key), registered with the listener directly
on_release(key) == hotkey_release(key) /\ UNCHANGED call

----------------------------------------------------------------------------
\* AudioRecorder.buffer_samples, and len(np.concatenate(self._frames)) in stop()
RECURSIVE Samples(_)
Samples(fs) == IF fs = <<>> THEN 0 ELSE Head(fs).len + Samples(Tail(fs))

buffer_samples == Samples(frames)

\* stop() with `duration <= 0.5` as its test.
HasClip_strict(fs) == fs # <<>> /\ ~(2 * Samples(fs) <= sample_rate)

\* stop(): the clip is written unless there are no frames or duration < 0.5,
\* duration = len(audio_data) / sample_rate.
HasClip(fs) == fs # <<>> /\ ~(2 * Samples(fs) < sample_rate)

\* _callback putting the new block in front of the buffer.
Callback_prepend(s, n) ==
    /\ s \in openStreams
    /\ is_recording
    /\ nBlocks < MaxBlocks
    /\ frames' = <<[id |-> nBlocks + 1, src |-> s, len |-> n]>> \o frames
    /\ nBlocks' = nBlocks + 1
    /\ UNCHANGED <<ctlVars, is_recording, stream, openStreams, wavOwner, tray,
                   startVars, procVars, recLog, uLog>>

\* AudioRecorder._callback: a block of n frames arrives from open stream s.
\* A stream whose handle a later start() overwrote was never stopped; whether
\* it still delivers blocks is left open (the action may or may not be taken).
Callback(s, n) ==
    /\ s \in openStreams
    /\ is_recording
    /\ nBlocks < MaxBlocks
    /\ frames' = Append(frames, [id |-> nBlocks + 1, src |-> s, len |-> n])
    /\ nBlocks' = nBlocks + 1
    /\ UNCHANGED <<ctlVars, is_recording, stream, openStreams, wavOwner, tray,
                   startVars, procVars, recLog, uLog>>

\* AudioRecorder.start(), run by start worker u; opened = FALSE when
\* sd.InputStream(...) raises (device unavailable, permission denied).
recorder_start(u, opened) ==
    /\ frames' = <<>>
    /\ is_recording' = TRUE
    /\ IF opened
       THEN stream' = u /\ openStreams' = openStreams \cup {u}
       ELSE UNCHANGED <<stream, openStreams>>
    /\ recLog' = Append(recLog, [op |-> "start", u |-> u, open |-> stream # None,
                                 at |-> nBlocks])
    /\ UNCHANGED <<nBlocks, wavOwner>>

\* AudioRecorder.stop(), run by processing worker u.  self._frames is not
\* cleared: only start() resets it.
recorder_stop(u) ==
    /\ is_recording' = FALSE
    /\ stream' = None
    /\ openStreams' = openStreams \ {stream}
    /\ wavOwner' = IF HasClip(frames) THEN u ELSE wavOwner
    /\ clip' = [clip EXCEPT ![u] = IF HasClip(frames) THEN frames ELSE <<>>]
    /\ recLog' = Append(recLog, [op |-> "stop", u |-> u, open |-> stream # None,
                                 at |-> nBlocks])
    /\ UNCHANGED <<frames, nBlocks>>

----------------------------------------------------------------------------
\* _do_start_recording, worker of the u-th accepted press.

\* tray.set_state(TRAY_RECORDING)
StartSetRecording(u) ==
    /\ spc[u] = "tray"
    /\ set_state(u, TRAY_RECORDING)
    /\ spc' = [spc EXCEPT ![u] = "start"]
    /\ UNCHANGED <<ctlVars, recVars, polls, beeps, procVars, recLog>>

\* recorder.start(); an exception ends the worker thread.
StartRecorder(u, opened) ==
    /\ spc[u] = "start"
    /\ recorder_start(u, opened)
    /\ spc' = [spc EXCEPT ![u] = IF opened THEN "poll" ELSE "dead"]
    /\ UNCHANGED <<ctlVars, tray, polls, beeps, procVars, uLog>>

\* beep(): the platform tone, or, when playing it raises, the terminal bell
\* printed by the except clause.  Either way beep() returns.
Cues == {"tone", "bell"}

\* The polling loop without its `break`.
StartPollWith_no_break(u, maxPolls, cues) ==
    /\ spc[u] = "poll"
    /\ polls' = [polls EXCEPT ![u] = @ + 1]
    /\ IF buffer_samples > CueThreshold
       THEN \E cue \in cues : beeps' = [beeps EXCEPT ![u] = Append(@, cue)]
       ELSE UNCHANGED beeps
    /\ spc' = [spc EXCEPT ![u] = IF polls[u] + 1 = maxPolls THEN "done" ELSE "poll"]
    /\ UNCHANGED <<ctlVars, recVars, tray, procVars, recLog, uLog>>

\* The polling loop as `while True:` (the poll counter is kept within the
\* bound).
StartPollWith_forever(u, maxPolls, cues) ==
    /\ spc[u] = "poll"
    /\ polls' = [polls EXCEPT ![u] = IF @ < maxPolls THEN @ + 1 ELSE @]
    /\ IF buffer_samples > CueThreshold
       THEN /\ \E cue \in cues : beeps' = [beeps EXCEPT ![u] = Append(@, cue)]
            /\ spc' = [spc EXCEPT ![u] = "done"]
       ELSE UNCHANGED <<beeps, spc>>
    /\ UNCHANGED <<ctlVars, recVars, tray, procVars, recLog, uLog>>

\* One iteration of `for _ in range(60)`: sleep, then test the buffer; above
\* the threshold beep() and break.  maxPolls stands for the 60, cues for the
\* ways beep() can end.
StartPollWith(u, maxPolls, cues) ==
    /\ spc[u] = "poll"
    /\ polls' = [polls EXCEPT ![u] = @ + 1]
    /\ IF buffer_samples > CueThreshold
       THEN /\ \E cue \in cues : beeps' = [beeps EXCEPT ![u] = Append(@, cue)]
            /\ spc' = [spc EXCEPT ![u] = "done"]
       ELSE /\ UNCHANGED beeps
            /\ spc' = [spc EXCEPT ![u] = IF polls[u] + 1 = maxPolls THEN "done" ELSE "poll"]
    /\ UNCHANGED <<ctlVars, recVars, tray, procVars, recLog, uLog>>

\* The loop with the tone always playing.
StartPoll(u) == StartPollWith(u, MaxPolls, {"tone"})

----------------------------------------------------------------------------
\* _do_process_recording, worker of the u-th accepted release.

\* wav_path = recorder.stop()
ProcStop(u) ==
    /\ ppc[u] = "stop"
    /\ recorder_stop(u)
    /\ ppc' = [ppc EXCEPT ![u] = IF HasClip(frames) THEN "processing" ELSE "short"]
    /\ UNCHANGED <<ctlVars, tray, startVars, outcome, sent, msg, pasted, uLog>>

\* if not wav_path: tray.set_state(TRAY_IDLE); print(too short); return
ProcTooShort(u) ==
    /\ ppc[u] = "short"
    /\ set_state(u, TRAY_IDLE)
    /\ msg' = [msg EXCEPT ![u] = MSG_TOO_SHORT]
    /\ ppc' = [ppc EXCEPT ![u] = "done"]
    /\ UNCHANGED <<ctlVars, recVars, startVars, outcome, clip, sent, pasted, recLog>>

\* tray.set_state(TRAY_PROCESSING)
ProcSetProcessing(u) ==
    /\ ppc[u] = "processing"
    /\ set_state(u, TRAY_PROCESSING)
    /\ ppc' = [ppc EXCEPT ![u] = "transcribe"]
    /\ UNCHANGED <<ctlVars, recVars, startVars, outcome, clip, sent, msg, pasted, recLog>>

\* transcribe(): open(wav_path) and requests.post(..., timeout=30) are issued
TranscribeSend(u) ==
    /\ ppc[u] = "transcribe"
    /\ sent' = [sent EXCEPT ![u] = Append(@, wavOwner)]
    /\ ppc' = [ppc EXCEPT ![u] = "await"]
    /\ UNCHANGED <<ctlVars, recVars, tray, startVars, outcome, clip, msg, pasted,
                   recLog, uLog>>

\* final_text = apply_corrections(raw_text, config["regex_rules"])
final_text(u) == apply_corrections(outcome[u].text, regex_rules)

\* _do_process_recording going on to paste_text whatever transcribe did.
TranscribeReturn_paste_anyway(u, o) ==
    /\ ppc[u] = "await"
    /\ outcome' = [outcome EXCEPT ![u] = o]
    /\ ppc' = [ppc EXCEPT ![u] = "paste"]
    /\ UNCHANGED <<ctlVars, recVars, tray, startVars, clip, sent, msg, pasted, recLog, uLog>>

\* transcribe() returns raw_text or raises, with outcome o; an exception is
\* caught by one of the except clauses, which prints its message.
TranscribeReturn(u, o) ==
    /\ ppc[u] = "await"
    /\ outcome' = [outcome EXCEPT ![u] = o]
    /\ IF o.kind = "ok"
       THEN /\ ppc' = [ppc EXCEPT ![u] =
                         IF apply_corrections(o.text, regex_rules) = <<>>
                         THEN "empty" ELSE "paste"]
            /\ UNCHANGED msg
       ELSE /\ msg' = [msg EXCEPT ![u] = FailureMessage(o)]
            /\ ppc' = [ppc EXCEPT ![u] = "error"]
    /\ UNCHANGED <<ctlVars, recVars, tray, startVars, clip, sent, pasted, recLog, uLog>>

\* tray.set_state(TRAY_ERROR)
ProcSetError(u) ==
    /\ ppc[u] = "error"
    /\ set_state(u, TRAY_ERROR)
    /\ ppc' = [ppc EXCEPT ![u] = "sleep"]
    /\ UNCHANGED <<ctlVars, recVars, startVars, outcome, clip, sent, msg, pasted, recLog>>

\* The end of an except clause that calls transcribe again.
ProcErrorIdle_retry(u) ==
    /\ ppc[u] = "sleep"
    /\ set_state(u, TRAY_PROCESSING)
    /\ ppc' = [ppc EXCEPT ![u] = "transcribe"]
    /\ UNCHANGED <<ctlVars, recVars, startVars, outcome, clip, sent, msg, pasted, recLog>>

\* The end of an except clause without its tray.set_state(TRAY_IDLE).
ProcErrorIdle_no_idle(u) ==
    /\ ppc[u] = "sleep"
    /\ ppc' = [ppc EXCEPT ![u] = "done"]
    /\ UNCHANGED <<ctlVars, recVars, tray, startVars, outcome, clip, sent, msg, pasted,
                   recLog, uLog>>

\* time.sleep(2); tray.set_state(TRAY_IDLE); return   (end of an except clause).
\* The worker stays at "sleep" while the delay runs; the step is its end.
ProcErrorIdle(u) ==
    /\ ppc[u] = "sleep"
    /\ set_state(u, TRAY_IDLE)
    /\ ppc' = [ppc EXCEPT ![u] = "done"]
    /\ UNCHANGED <<ctlVars, recVars, startVars, outcome, clip, sent, msg, pasted, recLog>>

\* An empty result handled like a failure: tray.set_state(TRAY_ERROR) first.
ProcEmpty_error(u) ==
    /\ ppc[u] = "empty"
    /\ set_state(u, TRAY_ERROR)
    /\ msg' = [msg EXCEPT ![u] = MSG_EMPTY]
    /\ ppc' = [ppc EXCEPT ![u] = "sleep"]
    /\ UNCHANGED <<ctlVars, recVars, startVars, outcome, clip, sent, pasted, recLog>>

\* if not final_text: print(empty result); tray.set_state(TRAY_IDLE); return
ProcEmpty(u) ==
    /\ ppc[u] = "empty"
    /\ set_state(u, TRAY_IDLE)
    /\ msg' = [msg EXCEPT ![u] = MSG_EMPTY]
    /\ ppc' = [ppc EXCEPT ![u] = "done"]
    /\ UNCHANGED <<ctlVars, recVars, startVars, outcome, clip, sent, pasted, recLog>>

\* paste_text(raw_text): the corrections are skipped.
ProcPaste_raw(u, ok) ==
    /\ ppc[u] = "paste"
    /\ IF ok
       THEN /\ pasted' = [pasted EXCEPT ![u] = Append(@, outcome[u].text)]
            /\ msg' = [msg EXCEPT ![u] = MSG_PASTED]
            /\ ppc' = [ppc EXCEPT ![u] = "pasted"]
       ELSE /\ ppc' = [ppc EXCEPT ![u] = "dead"]
            /\ UNCHANGED <<pasted, msg>>
    /\ UNCHANGED <<ctlVars, recVars, tray, startVars, outcome, clip, sent, recLog, uLog>>

\* paste_text(final_text); an exception (clipboard unavailable) ends the thread.
ProcPaste(u, ok) ==
    /\ ppc[u] = "paste"
    /\ IF ok
       THEN /\ pasted' = [pasted EXCEPT ![u] = Append(@, final_text(u))]
            /\ msg' = [msg EXCEPT ![u] = MSG_PASTED]
            /\ ppc' = [ppc EXCEPT ![u] = "pasted"]
       ELSE /\ ppc' = [ppc EXCEPT ![u] = "dead"]
            /\ UNCHANGED <<pasted, msg>>
    /\ UNCHANGED <<ctlVars, recVars, tray, startVars, outcome, clip, sent, recLog, uLog>>

\* tray.set_state(TRAY_IDLE)   (last statement)
ProcPastedIdle(u) ==
    /\ ppc[u] = "pasted"
    /\ set_state(u, TRAY_IDLE)
    /\ ppc' = [ppc EXCEPT ![u] = "done"]
    /\ UNCHANGED <<ctlVars, recVars, startVars, outcome, clip, sent, msg, pasted, recLog>>

----------------------------------------------------------------------------
KeyEvent == \E key \in Keys : on_press(key) \/ on_release(key)

\* The device delivers a block whose size is one of sizes.
AudioFrom(sizes) == \E s \in Utts, n \in sizes : Callback(s, n)

Audio == AudioFrom(BlockSizes)

\* The steps of the start worker of utterance u.
StartSteps(u) ==
    \/ StartSetRecording(u)
    \/ \E opened \in BOOLEAN : StartRecorder(u, opened)
    \/ StartPoll(u)

StartWorker == \E u \in Utts : StartSteps(u)

\* The steps of the processing worker of utterance u, the provider call
\* ending in one of outs.
ProcStepsWith(u, outs) ==
    \/ ProcStop(u)
    \/ ProcTooShort(u)
    \/ ProcSetProcessing(u)
    \/ TranscribeSend(u)
    \/ \E o \in outs : TranscribeReturn(u, o)
    \/ ProcSetError(u)
    \/ ProcErrorIdle(u)
    \/ ProcEmpty(u)
    \/ \E ok \in BOOLEAN : ProcPaste(u, ok)
    \/ ProcPastedIdle(u)

ProcSteps(u) == ProcStepsWith(u, Outcomes)

ProcWorker == \E u \in Utts : ProcSteps(u)

Next == KeyEvent \/ Audio \/ StartWorker \/ ProcWorker

Spec == Init /\ [][Next]_vars

\* The same controller with at most LiveBlocks blocks, each long enough for a
\* clip, and one provider outcome of each kind.
LiveBlocks == 1
LiveBlockSizes == {8000}
LiveOutcomes ==
    [kind : {"ok"}, text : {<<" ">>, <<"x">>}, status : {200}]
      \cup [kind : {"http"}, text : {<<>>}, status : {500}]
      \cup [kind : {"timeout", "other"}, text : {<<>>}, status : {0}]

LiveProcSteps(u) == ProcStepsWith(u, LiveOutcomes)

LiveNext ==
    \/ KeyEvent
    \/ (nBlocks < LiveBlocks /\ AudioFrom(LiveBlockSizes))
    \/ StartWorker
    \/ \E u \in Utts : LiveProcSteps(u)

\* Every started worker thread is scheduled until it returns or dies: each of
\* its steps ends by itself (the sleeps are finite, requests.post has
\* timeout=30), so a step that stays enabled is eventually taken.
WorkersRun == \A u \in Utts : WF_vars(StartSteps(u)) /\ WF_vars(LiveProcSteps(u))

LiveSpec == Init /\ [][LiveNext]_vars /\ WorkersRun

----------------------------------------------------------------------------
\* The synchronous controller of approach-5-gemini-macos/main.py and
\* approach-6-whisper-macos/main.py: on_press and on_release run the bodies
\* of _do_start_recording and _do_process_recording themselves, on the
\* listener thread, so the next key event is handled after the callback has
\* returned.  The body of the u-th accepted press (release) is at spc[u]
\* (ppc[u]).

\* The synchronous on_press without its `if recording: return`.
sync_on_press_unguarded(key) ==
    /\ listener = "waiting"
    /\ IF key # target_key
       THEN UNCHANGED vars
       ELSE /\ nPress < MaxUtt
            /\ listener' = "callback"
            /\ recording' = TRUE
            /\ nPress' = nPress + 1
            /\ spc' = [spc EXCEPT ![nPress + 1] = "tray"]
            /\ UNCHANGED <<call, nRel, recVars, tray, polls, beeps, procVars, recLog, uLog>>

\* on_press(key) up to the end of `with lock:`; the rest of the body follows
\* in the same callback.
sync_on_press(key) ==
    /\ listener = "waiting"
    /\ IF key # target_key \/ recording
       THEN UNCHANGED vars
       ELSE /\ nPress < MaxUtt
            /\ listener' = "callback"
            /\ recording' = TRUE
            /\ nPress' = nPress + 1
            /\ spc' = [spc EXCEPT ![nPress + 1] = "tray"]
            /\ UNCHANGED <<call, nRel, recVars, tray, polls, beeps, procVars, recLog, uLog>>

\* on_release(key) up to the end of `with lock:`.
sync_on_release(key) ==
    /\ listener = "waiting"
    /\ IF key # target_key \/ ~recording
       THEN UNCHANGED vars
       ELSE /\ listener' = "callback"
            /\ recording' = FALSE
            /\ nRel' = nRel + 1
            /\ ppc' = [ppc EXCEPT ![nRel + 1] = "stop"]
            /\ UNCHANGED <<call, nPress, recVars, tray, startVars, outcome, clip, sent, msg,
                           pasted, recLog, uLog>>

\* The body has reached its end (or a return): the callback returns.
SyncReturn ==
    /\ listener = "callback"
    /\ \A u \in Utts : spc[u] \in {"none", "done"} /\ ppc[u] \in {"none", "done"}
    /\ listener' = "waiting"
    /\ UNCHANGED <<call, recording, nPress, nRel, recVars, tray, startVars, procVars,
                   recLog, uLog>>

\* A statement outside any try block raised (recorder.start, paste_text):
\* the exception leaves on_press / on_release into the listener thread,
\* which ends; listener.join() returns and main with it.
SyncRaise ==
    /\ listener = "callback"
    /\ \E u \in Utts : spc[u] = "dead" \/ ppc[u] = "dead"
    /\ listener' = "stopped"
    /\ UNCHANGED <<call, recording, nPress, nRel, recVars, tray, startVars, procVars,
                   recLog, uLog>>

SyncKeyEvent == \E key \in Keys : sync_on_press(key) \/ sync_on_release(key)

\* StartWorker / ProcWorker: a statement of the running callback's body (a
\* body is started by an accepted key event only, and the next event is
\* taken after SyncReturn).
SyncNext == SyncKeyEvent \/ Audio \/ StartWorker \/ ProcWorker \/ SyncReturn \/ SyncRaise

SyncSpec == Init /\ [][SyncNext]_vars

----------------------------------------------------------------------------
\* The inline-payload (Gemini) transcribe of approach-4-gemini-windows/main.py
\* and approach-5-gemini-macos/main.py: the text is read out of the JSON
\* body of a 2xx response.  A JSON value is a record [t, v]: an object
\* (v a function on its keys), an array (v a sequence), a string (v a
\* sequence of characters) or null.
JObj(f) == [t |-> "object", v |-> f]
JArr(q) == [t |-> "array", v |-> q]
JStr(q) == [t |-> "string", v |-> q]
JNull == [t |-> "null", v |-> <<>>]

Key(name) == [key |-> TRUE, name |-> name, i |-> 0]
Idx(i) == [key |-> FALSE, name |-> "", i |-> i]

\* x[step] in Python: the value, or the exception the subscript raises.
Subscript(x, step) ==
    CASE x.t = "object" ->
            IF step.key /\ step.name \in DOMAIN x.v
            THEN [err |-> "none", val |-> x.v[step.name]]
            ELSE [err |-> "KeyError", val |-> JNull]
      [] x.t = "array" ->
            IF step.key THEN [err |-> "TypeError", val |-> JNull]
            ELSE IF step.i + 1 \in DOMAIN x.v
                 THEN [err |-> "none", val |-> x.v[step.i + 1]]
                 ELSE [err |-> "IndexError", val |-> JNull]
      [] x.t = "string" ->
            IF step.key THEN [err |-> "TypeError", val |-> JNull]
            ELSE IF step.i + 1 \in DOMAIN x.v
                 THEN [err |-> "none", val |-> JStr(<<x.v[step.i + 1]>>)]
                 ELSE [err |-> "IndexError", val |-> JNull]
      [] OTHER -> [err |-> "TypeError", val |-> JNull]

\* result["candidates"][0]["content"]["parts"][0]["text"]
TextPath == <<Key("candidates"), Idx(0), Key("content"), Key("parts"), Idx(0), Key("text")>>

RECURSIVE Follow(_, _)
Follow(x, path) ==
    IF path = <<>> THEN [err |-> "none", val |-> x]
    ELSE LET r == Subscript(x, Head(path))
         IN  IF r.err # "none" THEN r ELSE Follow(r.val, Tail(path))

\* The parsing with `.get(..., "")` in place of the try block: an absent path
\* gives the empty text.
gemini_parse_lenient(result) ==
    LET r == Follow(result, TextPath)
    IN  IF r.err = "none" /\ r.val.t = "string"
        THEN [err |-> "none", text |-> Strip(r.val.v)]
        ELSE [err |-> "none", text |-> <<>>]

\* try: text = result[...]...["text"]  except (KeyError, IndexError): raise
\* ValueError(...);  return text.strip()
gemini_parse(result) ==
    LET r == Follow(result, TextPath)
    IN  IF r.err \in {"KeyError", "IndexError"} THEN [err |-> "ValueError", text |-> <<>>]
        ELSE IF r.err # "none" THEN [err |-> r.err, text |-> <<>>]
        ELSE IF r.val.t # "string" THEN [err |-> "AttributeError", text |-> <<>>]
        ELSE [err |-> "none", text |-> Strip(r.val.v)]

\* Bodies of 2xx responses, by name.
Candidate(parts) == JObj([k \in {"content"} |-> JObj([j \in {"parts", "role"} |->
                        IF j = "parts" THEN parts ELSE JStr(<<"m">>)])])
GeminiBodyNames ==
    {"full", "blank", "no_candidates", "candidates_empty", "candidates_null",
     "candidate_no_content", "content_no_parts", "parts_empty", "part_no_text",
     "text_null", "candidates_string"}
GeminiBody(name) ==
    CASE name = "full" ->
            JObj([k \in {"candidates"} |->
                    JArr(<<Candidate(JArr(<<JObj([j \in {"text"} |-> JStr(<<"x", " ">>)])>>))>>)])
      [] name = "blank" ->
            JObj([k \in {"candidates"} |->
                    JArr(<<Candidate(JArr(<<JObj([j \in {"text"} |-> JStr(<<" ">>)])>>))>>)])
      [] name = "no_candidates" -> JObj([k \in {"promptFeedback"} |-> JNull])
      [] name = "candidates_empty" -> JObj([k \in {"candidates"} |-> JArr(<<>>)])
      [] name = "candidates_null" -> JObj([k \in {"candidates"} |-> JNull])
      [] name = "candidate_no_content" ->
            JObj([k \in {"candidates"} |->
                    JArr(<<JObj([j \in {"finishReason"} |-> JStr(<<"S">>)])>>)])
      [] name = "content_no_parts" ->
            JObj([k \in {"candidates"} |->
                    JArr(<<JObj([j \in {"content"} |->
                                   JObj([i \in {"role"} |-> JStr(<<"m">>)])])>>)])
      [] name = "parts_empty" ->
            JObj([k \in {"candidates"} |-> JArr(<<Candidate(JArr(<<>>))>>)])
      [] name = "part_no_text" ->
            JObj([k \in {"candidates"} |->
                    JArr(<<Candidate(JArr(<<JObj([j \in {"inline_data"} |-> JNull])>>))>>)])
      [] name = "text_null" ->
            JObj([k \in {"candidates"} |->
                    JArr(<<Candidate(JArr(<<JObj([j \in {"text"} |-> JNull])>>))>>)])
      [] OTHER -> JObj([k \in {"candidates"} |-> JStr(<<"x">>)])

\* What transcribe() returns or raises for the 2xx response named b.
GeminiOutcome(b) ==
    LET r == gemini_parse(GeminiBody(b))
    IN  [kind |-> IF r.err = "none" THEN "ok"
                  ELSE IF r.err = "ValueError" THEN "malformed" ELSE "other",
         text |-> r.text, status |-> 200, body |-> b]

GeminiOutcomes == {GeminiOutcome(b) : b \in GeminiBodyNames}

GeminiProcSteps(u) == ProcStepsWith(u, GeminiOutcomes)

\* The synchronous controller of approach 5 around this transcribe.
GeminiNext ==
    \/ SyncKeyEvent
    \/ Audio
    \/ StartWorker
    \/ \E u \in Utts : GeminiProcSteps(u)
    \/ SyncReturn
    \/ SyncRaise

GeminiSpec == Init /\ [][GeminiNext]_vars

\* The body has an object at the top, a candidate at index 0 with an object
\* "content", whose "parts" has at index 0 an object with a "text" member.
PathPresent(b) ==
    LET x == GeminiBody(b)
    IN  /\ x.t = "object" /\ "candidates" \in DOMAIN x.v
        /\ x.v["candidates"].t = "array" /\ x.v["candidates"].v # <<>>
        /\ LET c == x.v["candidates"].v[1]
           IN  /\ c.t = "object" /\ "content" \in DOMAIN c.v
               /\ c.v["content"].t = "object" /\ "parts" \in DOMAIN c.v["content"].v
               /\ LET ps == c.v["content"].v["parts"]
                  IN  /\ ps.t = "array" /\ ps.v # <<>>
                      /\ ps.v[1].t = "object" /\ "text" \in DOMAIN ps.v[1].v

----------------------------------------------------------------------------
\* apply_corrections called on its own, once on a text and once more on its
\* result.
MaxText == 5       \* length of the texts explored

CorrChars == {"N", "n", "8", " ", "a", "b"}

RECURSIVE TextsUpTo(_)
TextsUpTo(n) ==
    IF n = 0 THEN {<<>>}
    ELSE LET shorter == TextsUpTo(n - 1)
         IN  shorter \cup {Append(t, c) : t \in {x \in shorter : Len(x) = n - 1},
                                          c \in CorrChars}

\* Rule lists a config.json may hold besides the default one.
SqueezeRules == << [alts |-> << <<"a", "a">> >>, repl |-> <<"a">>, icase |-> FALSE] >>
ChainRules ==
    << [alts |-> << <<"a">> >>, repl |-> <<"b">>, icase |-> FALSE],
       [alts |-> << <<"b">> >>, repl |-> <<"c">>, icase |-> FALSE] >>
TrimRules == << [alts |-> << <<" ", "a">> >>, repl |-> <<"b">>, icase |-> FALSE] >>
CorrRuleLists == {regex_rules, SqueezeRules, ChainRules, TrimRules}

CorrInit ==
    /\ InitProgram
    /\ call \in [op : {"apply_corrections"}, stage : {"called"}, rules : CorrRuleLists,
                 text : TextsUpTo(MaxText), once : {<<>>}, twice : {<<>>}]

\* once = apply_corrections(text, rules)
CorrOnce ==
    /\ call.op = "apply_corrections"
    /\ call.stage = "called"
    /\ call' = [call EXCEPT !.once = apply_corrections(call.text, call.rules),
                            !.stage = "once"]
    /\ UNCHANGED progVars

\* twice = apply_corrections(once, rules)
CorrTwice ==
    /\ call.op = "apply_corrections"
    /\ call.stage = "once"
    /\ call' = [call EXCEPT !.twice = apply_corrections(call.once, call.rules),
                            !.stage = "twice"]
    /\ UNCHANGED progVars

CorrNext == CorrOnce \/ CorrTwice

CorrSpec == CorrInit /\ [][CorrNext]_vars

\* re.search(pattern, replacement) finds a match: the rule's replacement
\* matches the rule's own pattern.
SelfMatching(rule) ==
    \E i \in 1..Len(rule.repl) : FirstAlt(rule.repl, i, rule.alts, rule.icase, 1) # 0

----------------------------------------------------------------------------
\* The start worker with a longer polling loop and a tone that may fail.
CuePolls == 3

CuePoll(u) == StartPollWith(u, CuePolls, Cues)

CueOutcomes ==
    { [kind |-> "ok", text |-> <<"x">>, status |-> 200],
      [kind |-> "ok", text |-> <<" ">>, status |-> 200],
      [kind |-> "timeout", text |-> <<>>, status |-> 0] }

CueStartSteps(u) ==
    \/ StartSetRecording(u)
    \/ \E opened \in BOOLEAN : StartRecorder(u, opened)
    \/ CuePoll(u)

CueProcSteps(u) == ProcStepsWith(u, CueOutcomes)

CueNext ==
    \/ KeyEvent
    \/ (nBlocks < LiveBlocks /\ AudioFrom(BlockSizes))
    \/ \E u \in Utts : CueStartSteps(u)
    \/ \E u \in Utts : CueProcSteps(u)

CueSpec == Init /\ [][CueNext]_vars

\* A started start worker is scheduled until it returns or dies: every
\* statement of its body ends by itself (time.sleep(0.05) is finite).
StartWorkersRun == \A u \in Utts : WF_vars(CueStartSteps(u))

CueLiveSpec == Init /\ [][CueNext]_vars /\ StartWorkersRun

----------------------------------------------------------------------------
\* The except HTTPError clause of the two controllers, on its own.
\* raise_for_status() raises HTTPError for the statuses 400..599.
ErrorStatuses == 400..599

MSG_BAD_REQUEST == "bad request"
MSG_FORBIDDEN == "API Key lacks permission"
MSG_QUOTA == "too many requests (quota exceeded)"

\* approach 4/5: {400: ..., 401: ..., 403: ..., 429: ...}.get(status, f"API error HTTP {status}")
GeminiHttpMessage(st) ==
    IF st.known /\ st.code = 400 THEN MSG_BAD_REQUEST
    ELSE IF st.known /\ st.code = 401 THEN MSG_INVALID_KEY
    ELSE IF st.known /\ st.code = 403 THEN MSG_FORBIDDEN
    ELSE IF st.known /\ st.code = 429 THEN MSG_QUOTA
    ELSE MSG_API_ERROR

\* The failure kind a printed message stands for.
KindOf(m) ==
    CASE m \in {MSG_INVALID_KEY, MSG_FORBIDDEN} -> "Unauthorized"
      [] m \in {MSG_RATE_LIMITED, MSG_QUOTA} -> "RateLimited"
      [] m = MSG_TIMEOUT -> "Timeout"
      [] m = MSG_PARSE -> "MalformedResponse"
      [] OTHER -> "Other"

ClassifyInit ==
    /\ InitProgram
    /\ call \in [op : {"classify"}, stage : {"raised"}, status : ErrorStatuses,
                 classified : {[known |-> FALSE, code |-> 0]},
                 whisper : {MSG_NONE}, gemini : {MSG_NONE}]

\* Both controllers handle an HTTPError carrying the same status.
Classify ==
    /\ call.op = "classify"
    /\ call.stage = "raised"
    /\ call' = [call EXCEPT !.classified = HandlerStatus(call.status),
                            !.whisper = HttpMessage(HandlerStatus(call.status)),
                            !.gemini = GeminiHttpMessage(HandlerStatus(call.status)),
                            !.stage = "handled"]
    /\ UNCHANGED progVars

ClassifyNext == Classify

ClassifySpec == ClassifyInit /\ [][ClassifyNext]_vars

----------------------------------------------------------------------------
\* TrayIcon.set_state statement by statement, called by concurrent workers.
\* The object lives in `call`: _state, the icon and the tooltip on display
\* (each named by the state it renders), and per caller the states it still
\* has to set and its position in set_state.
TrayCallers == 2
MaxCalls == 2

TrayStates == {TRAY_IDLE, TRAY_RECORDING, TRAY_PROCESSING, TRAY_ERROR}
Callers == 1..TrayCallers

RECURSIVE StateSeqs(_)
StateSeqs(n) ==
    IF n = 0 THEN {<<>>}
    ELSE StateSeqs(n - 1) \cup
         {Append(q, st) : q \in {r \in StateSeqs(n - 1) : Len(r) = n - 1}, st \in TrayStates}

TrayInit ==
    /\ InitProgram
    /\ call \in [op : {"set_state"}, state : {TRAY_IDLE}, icon : {TRAY_IDLE},
                 title : {TRAY_IDLE},
                 todo : [Callers -> StateSeqs(MaxCalls) \ {<<>>}],
                 pc : [Callers -> {"lock"}]]

\* with self._lock: if self._state == state or self._icon is None: return;
\* self._state = state          (the icon exists once tray.start() has run)
TrayCommit(t) ==
    /\ call.op = "set_state"
    /\ call.pc[t] = "lock"
    /\ call.todo[t] # <<>>
    /\ IF call.state = Head(call.todo[t])
       THEN call' = [call EXCEPT !.todo[t] = Tail(@)]
       ELSE call' = [call EXCEPT !.state = Head(call.todo[t]), !.pc[t] = "icon"]
    /\ UNCHANGED progVars

\* self._icon.icon = _make_icon_image(_TRAY_COLORS.get(state, ...)), after
\* the lock is released
TrayRenderIcon(t) ==
    /\ call.op = "set_state"
    /\ call.pc[t] = "icon"
    /\ call' = [call EXCEPT !.icon = Head(call.todo[t]), !.pc[t] = "title"]
    /\ UNCHANGED progVars

\* self._icon.title = _TRAY_TOOLTIPS.get(state, ...); the call returns
TrayRenderTitle(t) ==
    /\ call.op = "set_state"
    /\ call.pc[t] = "title"
    /\ call' = [call EXCEPT !.title = Head(call.todo[t]), !.pc[t] = "lock",
                            !.todo[t] = Tail(@)]
    /\ UNCHANGED progVars

TrayNext == \E t \in Callers : TrayCommit(t) \/ TrayRenderIcon(t) \/ TrayRenderTitle(t)

TraySpec == TrayInit /\ [][TrayNext]_vars

\* Every call of set_state has returned.
TrayQuiet == call.op = "set_state" /\ \A t \in Callers : call.todo[t] = <<>>

----------------------------------------------------------------------------
\* The handlers approach-1-python-uv/main.py registers with the listener:
\* on_press_with_exit / on_release_with_exit keep the set of held keys, end
\* the process on the exit combination and otherwise delegate to on_press /
\* on_release.  `call` holds pressed_keys, whether os._exit(0) has run, the
\* last event handled (and whether it was passed on to on_press / on_release)
\* and `down`, the keys that are in fact held.  The worker threads are those
\* of Spec; none of their statements reads or writes pressed_keys, and they
\* are left unscheduled here.
exit_combo == {"ctrl_l", "shift", "q"}
ExitKeys == {"f9", "ctrl_l", "shift", "q", "other"}

\* pressed_keys.discard(key) as a no-op.
discard_noop(keys, key) == keys

\* pressed_keys.add(key)
add(keys, key) == keys \cup {key}

\* pressed_keys.discard(key)
discard(keys, key) == keys \ {key}

ExitInit ==
    /\ InitProgram
    /\ call = [op |-> "keys", pressed_keys |-> {}, down |-> {}, exited |-> FALSE,
               last |-> [kind |-> "none", key |-> "", delegated |-> FALSE]]

on_press_with_exit(key) ==
    /\ call.op = "keys"
    /\ ~call.exited
    /\ IF exit_combo \subseteq add(call.pressed_keys, key)
       THEN /\ call' = [call EXCEPT !.pressed_keys = add(@, key),
                                    !.down = @ \cup {key},
                                    !.exited = TRUE,
                                    !.last = [kind |-> "press", key |-> key,
                                              delegated |-> FALSE]]
            /\ UNCHANGED progVars
       ELSE /\ call' = [call EXCEPT !.pressed_keys = add(@, key),
                                    !.down = @ \cup {key},
                                    !.last = [kind |-> "press", key |-> key,
                                              delegated |-> TRUE]]
            /\ hotkey_press(key)

on_release_with_exit(key) ==
    /\ call.op = "keys"
    /\ ~call.exited
    /\ call' = [call EXCEPT !.pressed_keys = discard(@, key),
                            !.down = @ \ {key},
                            !.last = [kind |-> "release", key |-> key,
                                      delegated |-> TRUE]]
    /\ hotkey_release(key)

ExitNext == \E key \in ExitKeys : on_press_with_exit(key) \/ on_release_with_exit(key)

ExitSpec == ExitInit /\ [][ExitNext]_vars

----------------------------------------------------------------------------
\* test_api_key() of test_api_key.py, called on its own.  `call` holds the
\* value of OPENAI_API_KEY after load_env_local(), the position in the
\* function, the number of requests made, what requests.get did and what
\* the function returned ("raised" when an exception left it).
ApiKeys ==
    { <<>>, <<"s", "k", "-", "a">>, <<"s", "k", "-">>, <<"s", "k">>,
      <<"p", "k", "-", "a">>, <<"S", "K", "-", "a">>, <<" ", "s", "k", "-">>,
      <<"a", "s", "k", "-">> }

StatusCodes == 100..599

\* str.startswith accepting every string.
startswith_any(str, prefix) == TRUE

\* str.startswith(prefix)
startswith(str, prefix) ==
    /\ Len(str) >= Len(prefix)
    /\ \A i \in 1..Len(prefix) : str[i] = prefix[i]

\* What requests.get(..., timeout=15) does: an exception, or a response with
\* a status and, for the body, whether response.json() is an object whose
\* "data" is a list of objects with string ids.
NoResponse == [kind |-> "none", status |-> 0, wellformed |-> FALSE]
GetOutcomes ==
    [kind : {"ConnectionError", "Timeout", "TooManyRedirects"}, status : {0},
     wellformed : {FALSE}]
      \cup [kind : {"response"}, status : StatusCodes, wellformed : BOOLEAN]

ApiKeyInit ==
    /\ InitProgram
    /\ call \in [op : {"test_api_key"}, api_key : ApiKeys, pc : {"format"},
                 requests : {0}, response : {NoResponse}, result : {"none"}]

\* if not api_key: return False;  if not api_key.startswith("sk-"): return False
ApiKeyFormat ==
    /\ call.op = "test_api_key"
    /\ call.pc = "format"
    /\ IF call.api_key = <<>> \/ ~startswith(call.api_key, <<"s", "k", "-">>)
       THEN call' = [call EXCEPT !.pc = "returned", !.result = "False"]
       ELSE call' = [call EXCEPT !.pc = "get"]
    /\ UNCHANGED progVars

\* try: response = requests.get(...)  except ConnectionError: return False
\* except Timeout: return False       (any other exception leaves the function)
ApiKeyGet(o) ==
    /\ call.op = "test_api_key"
    /\ call.pc = "get"
    /\ call' = [call EXCEPT
                  !.requests = @ + 1,
                  !.response = o,
                  !.pc = IF o.kind = "response" THEN "status" ELSE "returned",
                  !.result = CASE o.kind = "response" -> "none"
                               [] o.kind \in {"ConnectionError", "Timeout"} -> "False"
                               [] OTHER -> "raised"]
    /\ UNCHANGED progVars

\* if response.status_code == 200: ... return True   (response.json() and the
\* .get calls raise on a body of another shape)
\* elif 401: return False   elif 429: return False   else: return False
ApiKeyStatus ==
    /\ call.op = "test_api_key"
    /\ call.pc = "status"
    /\ call' = [call EXCEPT
                  !.pc = "returned",
                  !.result = IF call.response.status = 200
                             THEN (IF call.response.wellformed THEN "True" ELSE "raised")
                             ELSE "False"]
    /\ UNCHANGED progVars

ApiKeyNext == ApiKeyFormat \/ (\E o \in GetOutcomes : ApiKeyGet(o)) \/ ApiKeyStatus

ApiKeySpec == ApiKeyInit /\ [][ApiKeyNext]_vars

----------------------------------------------------------------------------
\* Worker lifetimes and per-utterance observations.
StartAlive(u) == spc[u] \in {"tray", "start", "poll"}
ProcAlive(u) == ppc[u] \notin {"none", "done", "dead"}
StartSpawned == {u \in Utts : spc[u] # "none"}
ProcSpawned == {u \in Utts : ppc[u] # "none"}
StartCalls(u) == {i \in 1..Len(recLog) : recLog[i].op = "start" /\ recLog[i].u = u}
StopCalls(u) == {i \in 1..Len(recLog) : recLog[i].op = "stop" /\ recLog[i].u = u}
\* The last start() before the i-th recorder call, 0 if there is none.
LastStartBefore(i) ==
    IF \E j \in 1..(i - 1) : recLog[j].op = "start"
    THEN CHOOSE j \in 1..(i - 1) :
            /\ recLog[j].op = "start"
            /\ \A k \in (j + 1)..(i - 1) : recLog[k].op # "start"
    ELSE 0
BlockIds(fs) == {fs[i].id : i \in 1..Len(fs)}
\* The statuses the processing worker of u delivered (Recording is delivered
\* by start workers only).
PStatuses(u) == SelectSeq(uLog[u], LAMBDA st : st # TRAY_RECORDING)
\* The provider call of u failed.
Failed(u) == outcome[u].kind \in {"http", "timeout", "other"}
\* Utterances for which paste_text was called (it returned, or it raised and
\* ended the worker), transcribe returned a text, transcribe was called.
PasteCalls == {u \in Utts : pasted[u] # <<>> \/ ppc[u] = "dead"}
TranscribeOk == {u \in Utts : outcome[u].kind = "ok"}
TranscribeCalls == {u \in Utts : sent[u] # <<>>}
\* No statement of any handler body has raised.
NothingRaised == \A u \in Utts : spc[u] # "dead" /\ ppc[u] # "dead"
\* Both workers of utterance u have run to their last statement.
Finished(u) == spc[u] = "done" /\ ppc[u] = "done"

----------------------------------------------------------------------------
\* C1: between two accepted releases at most one press is accepted, whatever
\* number of presses arrives: the start workers spawned are exactly one per
\* accepted release plus one if the guard flag is set, and no start worker
\* calls recorder.start more than once.
C1_DoubleStartGuard ==
    /\ Cardinality(StartSpawned) = nRel + (IF recording THEN 1 ELSE 0)
    /\ nPress = Cardinality(StartSpawned)
    /\ \A u \in Utts : Cardinality(StartCalls(u)) <= 1
    /\ \A u \in Utts : StartCalls(u) # {} => u \in StartSpawned

\* C1 witness: the second press has been accepted after a release, its worker
\* has called recorder.start, and the guard flag is set (further presses are
\* key-repeat events).
C1_Witness ==
    /\ recording
    /\ nPress = 2
    /\ nRel = 1
    /\ StartCalls(2) # {}

\* C2: while a processing worker is running no press is accepted: the guard
\* flag stays clear and its utterance is still the latest accepted one.
C2_PressIgnoredWhileProcessing ==
    \A u \in Utts : ProcAlive(u) => (~recording /\ nPress = u)

\* C3: at most one start worker and at most one processing worker are alive.
C3_AtMostOneWorkerEach ==
    /\ Cardinality({u \in Utts : StartAlive(u)}) <= 1
    /\ Cardinality({u \in Utts : ProcAlive(u)}) <= 1

\* C4: recorder.start never runs while a stream is open, recorder.stop never
\* runs while the session is closed, and the executions alternate, beginning
\* with start, each stop following the start of its own utterance.
C4_StartStopAlternate ==
    \A i \in 1..Len(recLog) :
        /\ recLog[i].op = (IF i % 2 = 1 THEN "start" ELSE "stop")
        /\ recLog[i].op = "start" => ~recLog[i].open
        /\ recLog[i].op = "stop" =>
              /\ recLog[i].open
              /\ \E j \in 1..(i - 1) : recLog[j].op = "start" /\ recLog[j].u = recLog[i].u

\* C5: every captured block is in at most one clip, and the clip of an
\* utterance holds only blocks of the stream its own start opened.
C5_ClipOwnBlocksOnly ==
    /\ \A u1, u2 \in Utts : u1 # u2 => BlockIds(clip[u1]) \cap BlockIds(clip[u2]) = {}
    /\ \A u \in Utts : \A i \in 1..Len(clip[u]) : clip[u][i].src = u

\* C6: the status shown is never Idle or Processing while the capture session
\* of the latest accepted press is open and recording, and it is not Recording
\* once the guard flag is clear and the processing worker of the latest
\* utterance has stopped the recorder and delivered all its statuses.
C6_StatusMatchesState ==
    /\ (recording /\ stream = nPress /\ is_recording) =>
            tray \notin {TRAY_IDLE, TRAY_PROCESSING}
    /\ (~recording /\ nPress > 0 /\ ppc[nPress] = "done") => tray # TRAY_RECORDING

\* C7: when the last accepted event is a release and every worker has run
\* to its end, the status is Idle, the guard flag is clear and no stream is open.
C7_ReturnToIdle ==
    (nPress > 0 /\ nRel = nPress /\ \A u \in 1..nPress : Finished(u)) =>
        /\ tray = TRAY_IDLE
        /\ ~recording
        /\ stream = None
        /\ openStreams = {}

\* C8: a failed transcription is reported by its HTTP status or transport
\* outcome: 401 as invalid API key, 429 as rate limited, a timeout as timeout.
C8_FailureClassification ==
    \A u \in Utts :
        /\ (outcome[u].kind = "http" /\ outcome[u].status = 401) => msg[u] = MSG_INVALID_KEY
        /\ (outcome[u].kind = "http" /\ outcome[u].status = 429) => msg[u] = MSG_RATE_LIMITED
        /\ outcome[u].kind = "timeout" => msg[u] = MSG_TIMEOUT

\* C9: an utterance whose stop() reported discard makes no transcription
\* request, pastes nothing, and its status goes Recording, then Idle, without
\* Processing or Error.
C9_TooShortDirectlyIdle ==
    \A u \in Utts :
        (Finished(u) /\ msg[u] = MSG_TOO_SHORT) =>
            /\ sent[u] = <<>>
            /\ pasted[u] = <<>>
            /\ uLog[u] = <<TRAY_RECORDING, TRAY_IDLE>>

\* C10: an utterance whose provider call timed out delivers exactly the
\* statuses Recording, Processing, Error, Idle, and pastes nothing.
C10_TimeoutStatusSequence ==
    \A u \in Utts :
        (Finished(u) /\ outcome[u].kind = "timeout") =>
            /\ uLog[u] = <<TRAY_RECORDING, TRAY_PROCESSING, TRAY_ERROR, TRAY_IDLE>>
            /\ pasted[u] = <<>>

\* C11: every failed transcription sets the status Error, and whenever the
\* status is Error it becomes Idle again with no further key event needed.
C11_ErrorTransient ==
    /\ \A u \in Utts : (ppc[u] = "error") ~> (ppc[u] = "sleep" /\ tray = TRAY_ERROR)
    /\ (tray = TRAY_ERROR) ~> (tray = TRAY_IDLE)

\* C11 witness: a worker whose provider call failed has set Error and is in
\* its display delay.
C11_Witness ==
    \E u \in Utts :
        /\ ppc[u] = "sleep"
        /\ outcome[u].kind \in {"http", "timeout", "other"}
        /\ tray = TRAY_ERROR

\* C12: while a processing worker that reported Error is in its display delay,
\* the status is Error: nothing else is delivered to the tray before the delay
\* has elapsed, whatever key events arrive meanwhile.
C12_ErrorNotSkipped ==
    \A u \in Utts : ppc[u] = "sleep" => tray = TRAY_ERROR

\* C13: a release is accepted only while the guard flag is set: accepted
\* presses and releases alternate, beginning with a press, every processing
\* worker belongs to an accepted release that followed the press of the same
\* utterance, and no worker calls recorder.stop more than once.
C13_ReleaseFiltering ==
    /\ nRel = Cardinality(ProcSpawned)
    /\ nRel <= nPress
    /\ nPress <= nRel + 1
    /\ recording <=> (nPress = nRel + 1)
    /\ \A u \in ProcSpawned : u \in StartSpawned /\ u <= nRel
    /\ \A u \in Utts : Cardinality(StopCalls(u)) <= 1

\* C13 witness: two press/release pairs have been accepted and the guard flag
\* is clear, so a further release (a duplicate key-up) finds it clear.
C13_Witness ==
    /\ ~recording
    /\ nPress = 2
    /\ nRel = 2
    /\ StopCalls(2) # {}

\* C14: a stop() call returns a clip exactly when the frames captured, n,
\* satisfy 2 * n >= sample_rate (n / sample_rate >= 0.5); the clip is then
\* the buffer, and otherwise nothing is written.
C14_MinimumDuration ==
    [][\A u \in Utts :
          (ppc[u] = "stop" /\ ppc'[u] # "stop") =>
              /\ ppc'[u] \in {"processing", "short"}
              /\ (ppc'[u] = "processing") <=> (2 * Samples(frames) >= sample_rate)
              /\ ppc'[u] = "processing" => (clip'[u] = frames /\ wavOwner' = u)
              /\ ppc'[u] = "short" => (clip'[u] = <<>> /\ wavOwner' = wavOwner)]_vars

\* C14 witness: a stop() call found exactly half a second of audio and
\* returned it as the clip.
C14_Witness ==
    \E u \in Utts : clip[u] # <<>> /\ 2 * Samples(clip[u]) = sample_rate

C16_EmptyResult ==
    \A u \in Utts :
        (outcome[u].kind = "ok" /\ final_text(u) = <<>>) =>
            /\ pasted[u] = <<>>
            /\ \A i \in 1..Len(uLog[u]) : uLog[u][i] # TRAY_ERROR
            /\ ppc[u] \in {"empty", "done"}
            /\ ppc[u] = "done" =>
                  (PStatuses(u) = <<TRAY_PROCESSING, TRAY_IDLE>> /\ msg[u] = MSG_EMPTY)

\* C16 witness: a worker whose provider call returned only blanks has returned.
C16_Witness ==
    \E u \in Utts :
        outcome[u].kind = "ok" /\ final_text(u) = <<>> /\ ppc[u] = "done"

\* C17: every accepted release leads to at most one transcribe call, and
\* none is made for a release that was not accepted; a failed call is not
\* followed by another one for the same utterance.
C17_NoRetry ==
    \A u \in Utts :
        /\ Len(sent[u]) <= (IF u <= nRel THEN 1 ELSE 0)
        /\ Failed(u) => Len(sent[u]) = 1

\* C17 witness: a worker whose provider call failed has shown Error, gone back
\* to Idle and returned, having made one call.
C17_Witness ==
    \E u \in Utts : Failed(u) /\ ppc[u] = "done" /\ Len(sent[u]) = 1

\* C18: no failure of a pipeline step ends the hotkey listener: it is never
\* stopped, so a later press / release pair is still accepted.
C18_ListenerSurvivesFailures ==
    listener # "stopped"

\* C19: after recorder.start failed to open the device, the guard flag of
\* that press is clear, Recording was never reported for it, and (no other
\* recorder call having run since) is_recording is False.
C19_CaptureFailureLeavesNoTrace ==
    \A u \in Utts :
        spc[u] = "dead" =>
            /\ ~(recording /\ nPress = u)
            /\ \A i \in 1..Len(uLog[u]) : uLog[u][i] # TRAY_RECORDING
            /\ (/\ recLog[Len(recLog)].op = "start"
                /\ recLog[Len(recLog)].u = u
                /\ ~recLog[Len(recLog)].open) => ~is_recording

\* C20: while a step of the pipeline (device open, polling sleep, stop and
\* file write, provider call, error delay, paste) is pending, the listener
\* thread is waiting for key events: it executes none of them itself.
C20_ListenerNeverBlocks ==
    \A u \in Utts : (StartAlive(u) \/ ProcAlive(u)) => listener = "waiting"

C22_RulesChain ==
    (call.op = "apply_corrections" /\ call.stage # "called") =>
        /\ call.rules = ChainRules =>
              call.once = Strip([i \in 1..Len(call.text) |->
                                   IF call.text[i] \in {"a", "b"} THEN "c"
                                   ELSE call.text[i]])
        /\ (call.rules = TrimRules /\ Len(call.text) >= 2
                /\ call.text[1] = " " /\ call.text[2] = "a") =>
              (call.once # <<>> /\ call.once[1] = "b")

\* C22 witness: a text with an a has been corrected by the chain a->b, b->c.
C22_Witness ==
    /\ call.op = "apply_corrections"
    /\ call.stage = "once"
    /\ call.rules = ChainRules
    /\ call.text = <<" ", "a", "N", "b">>
    /\ call.once = <<"c", "N", "c">>

\* C23: when the body of a 2xx response has no
\* candidates[0].content.parts[0].text, transcribe returns no text, not even
\* the empty one: it raises, the controller sets Error and pastes nothing.
C23_MalformedResponseFails ==
    \A u \in Utts :
        (outcome[u].kind # "none" /\ ~PathPresent(outcome[u].body)) =>
            /\ outcome[u].kind \in {"malformed", "other"}
            /\ pasted[u] = <<>>
            /\ ppc[u] \in {"error", "sleep", "done"}
            /\ ppc[u] \in {"sleep", "done"} =>
                  (\E i \in 1..Len(uLog[u]) : uLog[u][i] = TRAY_ERROR)
            /\ ppc[u] = "done" => msg[u] \in {MSG_PARSE, MSG_OTHER}

\* C23 witness: a response whose only candidate has no content has been
\* handled to the end.
C23_Witness ==
    \E u \in Utts :
        /\ outcome[u].kind = "malformed"
        /\ outcome[u].body = "candidate_no_content"
        /\ ppc[u] = "done"

\* C24: for every HTTP status both controllers assign the same failure kind;
\* 401 and 403 are Unauthorized and 429 is RateLimited in both.
C24_SameClassification ==
    (call.op = "classify" /\ call.stage = "handled") =>
        /\ KindOf(call.whisper) = KindOf(call.gemini)
        /\ call.status \in {401, 403} =>
              (KindOf(call.whisper) = "Unauthorized" /\ KindOf(call.gemini) = "Unauthorized")
        /\ call.status = 429 =>
              (KindOf(call.whisper) = "RateLimited" /\ KindOf(call.gemini) = "RateLimited")

C26_CueOnce ==
    [][\A u \in Utts :
          /\ Len(beeps'[u]) <= 1
          /\ beeps'[u] # beeps[u] =>
                /\ Samples(frames) > 4000
                /\ spc[u] = "poll"
                /\ spc'[u] = "done"]_vars

\* C26 witness: a worker found the buffer at or below the threshold twice,
\* then above it, and the tone failed: the bell was printed and the worker
\* ended.
C26_Witness ==
    \E u \in Utts : polls[u] = 3 /\ beeps[u] = <<"bell">> /\ spc[u] = "done"

\* C27: at most one capture stream is open at any time, and the recorder's
\* handle names the open stream: no start() has replaced the handle of a
\* stream that no stop() closed.
C27_OneOpenStream ==
    /\ Cardinality(openStreams) <= 1
    /\ \A s \in openStreams : stream = s

\* C28: while the polling loop of the current press runs, the listener can
\* take the release of the hotkey: on_release is not held back by the loop.
C28_PollingNeverGatesRelease ==
    \A u \in Utts :
        (spc[u] = "poll" /\ recording /\ nPress = u) => ENABLED sync_on_release(target_key)

\* C29: while the provider request of utterance u is reading and sending the
\* temporary WAV file, the file holds the clip written by u's own stop().
C29_ClipExclusive ==
    \A u \in Utts : ppc[u] = "await" => wavOwner = u

\* C30: after a stop(), until the next start(), the buffer is empty.
C30_DrainResetsBuffer ==
    (recLog # <<>> /\ recLog[Len(recLog)].op = "stop") => frames = <<>>

\* C31: the handler of an HTTPError whose response has status s, 400 <= s
\* <= 599, classifies on s itself, not on the placeholder "?".
C31_ClassifiesOnStatus ==
    (call.op = "classify" /\ call.stage = "handled") =>
        (call.classified.known /\ call.classified.code = call.status)

\* C32: once all concurrent set_state calls have returned, the icon and the
\* tooltip on display are those of the value stored in TrayIcon._state.
C32_TrayRenderingConsistent ==
    TrayQuiet => (call.icon = call.state /\ call.title = call.state)

\* C33: paste_text calls <= successful transcribe calls <= transcribe calls
\* <= accepted releases <= accepted presses <= accepted releases + 1, and no
\* utterance has more than one call of either.
C33_PipelineCounting ==
    /\ Cardinality(PasteCalls) <= Cardinality(TranscribeOk)
    /\ Cardinality(TranscribeOk) <= Cardinality(TranscribeCalls)
    /\ Cardinality(TranscribeCalls) <= nRel
    /\ nRel <= nPress
    /\ nPress <= nRel + 1
    /\ \A u \in Utts : Len(pasted[u]) <= 1 /\ Len(sent[u]) <= 1
    /\ PasteCalls \subseteq TranscribeOk

\* C33 witness: two utterances accepted and processed to the end, one pasted
\* and one whose provider call failed.
C33_Witness ==
    /\ nPress = 2 /\ nRel = 2
    /\ \A u \in Utts : ppc[u] = "done"
    /\ Cardinality(PasteCalls) = 1
    /\ Cardinality(TranscribeOk) = 1
    /\ Cardinality(TranscribeCalls) = 2

\* C34: in the synchronous controller, as long as no step has raised, the
\* recorder calls are start, stop, start, stop, ..., each start finding no
\* stream and each stop an open one, and whenever the listener is between
\* two handlers the guard flag is set exactly when a stream is open.
C34_SyncAlternation ==
    NothingRaised =>
        /\ \A i \in 1..Len(recLog) :
              /\ recLog[i].op = (IF i % 2 = 1 THEN "start" ELSE "stop")
              /\ recLog[i].open = (i % 2 = 0)
        /\ listener = "waiting" => (recording <=> stream # None)
        /\ listener = "waiting" => (recording <=> openStreams # {})
        /\ Cardinality(openStreams) <= 1

\* C34 witness: two press / release pairs have been handled without a raise
\* and the listener waits for the next event.
C34_Witness ==
    /\ NothingRaised
    /\ listener = "waiting"
    /\ Len(recLog) = 4
    /\ nPress = 2 /\ nRel = 2

\* C35: a press or a release of a key other than the hotkey changes neither
\* the guard flag, nor the recorder, nor the buffer, nor the status, and
\* spawns no worker: it changes nothing at all.
C35_OtherKeysIgnored ==
    [][\A key \in Keys \ {target_key} :
          (on_press(key) \/ on_release(key)) => UNCHANGED progVars]_vars

\* C35 witness: the hotkey is held, the stream is open, a block is buffered
\* and the status is Recording while an earlier utterance is still being
\* processed: any other key pressed now meets flag, recorder and workers in
\* a non-initial state.
C35_Witness ==
    /\ recording
    /\ stream # None
    /\ frames # <<>>
    /\ tray = TRAY_RECORDING
    /\ \E u \in Utts : ppc[u] = "await"

\* C36: a start worker that has entered the polling loop ends, audio or no
\* audio; it never polls more often than the loop bound, and when it has
\* ended it has either played the cue in its last poll or used up all polls
\* without a cue.
C36_StartWorkerTerminates ==
    /\ \A u \in Utts : (spc[u] = "poll") ~> (spc[u] = "done")
    /\ [](\A u \in Utts :
            /\ polls[u] <= CuePolls
            /\ spc[u] = "done" =>
                  \/ Len(beeps[u]) = 1
                  \/ (beeps[u] = <<>> /\ polls[u] = CuePolls))

\* C36 witness: one worker ended after all its polls with no audio delivered
\* at all and no cue, another one ended at its second poll with the cue.
C36_Witness ==
    /\ spc[1] = "done" /\ polls[1] = CuePolls /\ beeps[1] = <<>>
    /\ spc[2] = "done" /\ polls[2] = 2 /\ Len(beeps[2]) = 1

\* C37: once the processing worker of an utterance whose clip was sent has
\* returned the status to Idle, the temporary WAV file no longer exists.
C37_TempFileReclaimed ==
    \A u \in Utts :
        (sent[u] # <<>> /\ ppc[u] = "done") => wavOwner = None

\* C38: the process has exited exactly when Ctrl-left, Shift and q are all
\* held; that happens on a press, which is not passed on to on_press; every
\* other press and every release is passed on, and a released key is no
\* longer in pressed_keys.
C38_ExitCombination ==
    call.op = "keys" =>
        /\ call.exited <=> exit_combo \subseteq call.down
        /\ call.pressed_keys = call.down
        /\ call.exited => (call.last.kind = "press" /\ ~call.last.delegated)
        /\ (~call.exited /\ call.last.kind # "none") => call.last.delegated
        /\ call.last.kind = "release" => call.last.key \notin call.pressed_keys

\* C38 witness: the program exited on the press of q with the hotkey held
\* and its second utterance being recorded: both Ctrl-left and Shift had
\* been pressed, and the hotkey released once, before.
C38_Witness ==
    /\ call.op = "keys"
    /\ call.exited
    /\ call.last.key = "q"
    /\ recording /\ nPress = 2 /\ nRel = 1

\* C39: test_api_key returns True only after a GET that answered 200; with
\* the key missing or not beginning with "sk-" it makes no request and
\* returns False; it returns False on a connection error, on a timeout, and
\* on every status other than 200; it makes at most one request.
C39_ApiKeyTest ==
    call.op = "test_api_key" =>
        LET prefixed == Len(call.api_key) >= 3 /\ SubSeq(call.api_key, 1, 3) = <<"s", "k", "-">>
        IN  /\ call.result = "True" =>
                  (call.requests = 1 /\ call.response.kind = "response"
                                     /\ call.response.status = 200)
            /\ ~prefixed => call.requests = 0
            /\ (~prefixed /\ call.pc = "returned") => call.result = "False"
            /\ call.requests <= 1
            /\ (call.pc = "returned" /\ call.response.kind \in {"ConnectionError", "Timeout"})
                  => call.result = "False"
            /\ (call.pc = "returned" /\ call.response.kind = "response"
                                     /\ call.response.status # 200)
                  => call.result = "False"

\* C39 witness: a key with the prefix was sent and the answer was 429, so
\* the function returned False after one request.
C39_Witness ==
    /\ call.op = "test_api_key"
    /\ call.pc = "returned"
    /\ call.api_key = <<"s", "k", "-", "a">>
    /\ call.requests = 1
    /\ call.response.status = 429
    /\ call.result = "False"

====
